---- MODULE Spec2Model ----
(***************************************************************************)
(* Model of entrypoint.py: the start-up script of a single-container       *)
(* WordPress/LAMP image.  The script reads a YAML document, derives one    *)
(* SiteSettings per entry of `sites`, appends SQL to an init file,         *)
(* initialises the database, writes Apache vhost files, launches           *)
(* supervisord in the background, sets up every WordPress folder and then  *)
(* waits on supervisord.                                                   *)
(*                                                                         *)
(* Representation of Python data:                                          *)
(*   - a str is a sequence of one-character strings ("a.b" is              *)
(*     <<"a", ".", "b">>), so that len(), replace() and emptiness are      *)
(*     computed and not assumed;                                           *)
(*   - a value read from the YAML document is None or Str(chars) or        *)
(*     Bool(b);                                                            *)
(*   - a dict is a function from its keys (TLA+ strings) to values, and    *)
(*     `k in d` is k \in DOMAIN d; the `sites` mapping, whose iteration    *)
(*     order matters, is a sequence of [key, settings] entries with        *)
(*     distinct keys;                                                      *)
(*   - a generated text (SQL, vhost configuration) is a sequence of        *)
(*     tokens; a token is a sequence of strings: a literal word is         *)
(*     <<"ServerName">>, an interpolated field is its characters, a line   *)
(*     break is NL.  Blanks are not represented: tokens are what blanks,   *)
(*     line breaks and the ends of interpolated fields separate.           *)
(*   - a path is the sequence of its pieces: the fixed prefix, the         *)
(*     characters of the domain, the fixed suffix.                         *)
(***************************************************************************)
EXTENDS Integers, Sequences, FiniteSets, TLC

VARIABLES
    pc,             \* position of the main flow (see the actions)
    error,          \* the exception that ended the main flow, or "none"
    documents,      \* WpDockerBuilder.documents: [sites, database]
    sites,          \* WpDockerBuilder.sites: sequence of SiteSettings
    db_password,    \* WpDockerBuilder.db_password
    i,              \* index of the running `for s in self.sites` loop
    files,          \* /etc/apache2/sites-enabled: path -> text (persisted)
    folders,        \* existing directories under /var/www/html (persisted)
    sql_file,       \* /docker-entrypoint-initdb.d/wordpress-db_init.sql (persisted)
    supervisor,     \* the supervisord child: "none", "running", "exited"
    log,            \* what this run did so far, in order (history)
    run,            \* number of the current run of the container
    vhost_before,   \* `files` as it was when the current run started (history)
    folders_before, \* `folders` as it was when the current run started (history)
    setup_count     \* path of a site folder -> runs of setup-wp.sh there, over all runs (history)

vars == <<pc, error, documents, sites, db_password, i, files, folders,
          sql_file, supervisor, log, run, vhost_before, folders_before,
          setup_count>>

----------------------------------------------------------------------------
(* Bounds of the model *)

MaxRuns == 2        \* container starts considered (restarts = MaxRuns - 1)
MaxAlias == 2       \* longest alias list drawn for a single site
MaxPwLen == 2       \* longest root_password drawn for the database section

(* Program constant *)
RANDOM_PASSWORD_LENGTH == 32

----------------------------------------------------------------------------
(* Python values *)

None == [t |-> "NoneType"]
Str(s) == [t |-> "str", v |-> s]
Bool(b) == [t |-> "bool", v |-> b]

EmptyDict == [k \in {} |-> None]

\* `x is None`
IsNone(x) == x.t = "NoneType"

\* len(x) of a str
PyLen(x) == Len(x.v)

\* f"{x}" of a value: str(None) is "None", str of a str is itself
Format(x) == IF IsNone(x) THEN <<"N", "o", "n", "e">> ELSE x.v

\* a field "is empty" when it is None or the empty string
IsEmptyValue(x) == IsNone(x) \/ (x.t = "str" /\ Len(x.v) = 0)

RECURSIVE Concat(_)
\* ''.join / += over a sequence of sequences
Concat(ss) == IF ss = <<>> THEN <<>> ELSE Head(ss) \o Concat(Tail(ss))

----------------------------------------------------------------------------
(* random_password *)

ascii_lowercase ==
    {"a","b","c","d","e","f","g","h","i","j","k","l","m",
     "n","o","p","q","r","s","t","u","v","w","x","y","z"}

\* The random.choice draws that the model explores: a draw sequence is
\* given by two letters, drawn at the even and at the odd positions.
RandomChoices == { <<"q", "a">>, <<"z", "z">> }

\* random.choice(letters) at position n of the draw sequence `choice`
Draw(choice, n) == choice[(n % 2) + 1]

\* ''.join(random.choice(letters) for i in range(RANDOM_PASSWORD_LENGTH))
random_password(choice) ==
    [n \in 1..RANDOM_PASSWORD_LENGTH |-> Draw(choice, n - 1)]

----------------------------------------------------------------------------
(* SiteSettings *)

Default == <<"d", "e", "f", "a", "u", "l", "t">>

\* key.replace('.', '_')
ReplaceDots(key) ==
    [n \in 1..Len(key) |-> IF key[n] = "." THEN "_" ELSE key[n]]

\* settings[k] if k in settings else dflt
GetOr(settings, k, dflt) ==
    IF k \in DOMAIN settings THEN settings[k] ELSE dflt

\* SiteSettings.__init__(key, settings); `opt` is <<>> for None and <<d>>
\* for a dict d; `choice` is the draw sequence of random_password().
SiteSettings(key, opt, choice) ==
    LET settings == IF opt = <<>> THEN EmptyDict ELSE opt[1]
        safe_name == ReplaceDots(key)
    IN  [ domain      |-> key,
          safe_name   |-> safe_name,
          db_name     |-> GetOr(settings, "database_name", Str(safe_name)),
          db_username |-> GetOr(settings, "database_user_name", Str(safe_name)),
          db_password |-> GetOr(settings, "database_password",
                                Str(random_password(choice))),
          alias       |-> IF "alias" \in DOMAIN settings
                          THEN settings["alias"] ELSE <<>>,
          site_folder |-> <<"/var/www/html/">> \o key ]

(* Tokens of the generated texts *)
NL == <<"\n">>
W(word) == <<word>>

\* SiteSettings.db_script()
db_script(s) ==
    << NL,
       W("CREATE"), W("DATABASE"), W("IF"), W("NOT"), W("EXISTS"),
           Format(s.db_name), W(";"), NL,
       W("CREATE"), W("USER"),
           W("'"), Format(s.db_username), W("'@'%'"),
           W("IDENTIFIED"), W("BY"), W("'"), Format(s.db_password), W("'"),
           W(";"), NL,
       W("GRANT"), W("ALL"), W("ON"), Format(s.db_name), W(".*"), W("TO"),
           W("'"), Format(s.db_username), W("'@'%'"), W(";"), NL >>

\* two texts put end to end with nothing in between: the last token of the
\* first and the first token of the second become one token, unless one of
\* them is a line break
Glue(a, b) ==
    IF a = <<>> THEN b
    ELSE IF b = <<>> THEN a
    ELSE IF a[Len(a)] = NL \/ b[1] = NL THEN a \o b
    ELSE SubSeq(a, 1, Len(a) - 1) \o << a[Len(a)] \o b[1] >> \o Tail(b)

RECURSIVE ReplaceInToken(_, _, _)
\* str.replace within the characters of one token: every occurrence of the
\* characters `old`, found from left to right, gives way to the text `new`
ReplaceInToken(tok, old, new) ==
    IF tok = <<>> THEN <<>>
    ELSE IF Len(tok) >= Len(old) /\ SubSeq(tok, 1, Len(old)) = old
         THEN Glue(new, ReplaceInToken(SubSeq(tok, Len(old) + 1, Len(tok)), old, new))
         ELSE Glue(<< <<Head(tok)>> >>, ReplaceInToken(Tail(tok), old, new))

\* text.replace(old, new): `old` is a run of characters without blanks, so
\* each of its occurrences lies within one token of the text
Replace(text, old, new) ==
    Concat([n \in 1..Len(text) |-> ReplaceInToken(text[n], old, new)])

\* '__ServerName__place__holder'
placeholder ==
    << "_", "_", "S", "e", "r", "v", "e", "r", "N", "a", "m", "e",
       "_", "_", "p", "l", "a", "c", "e", "_", "_", "h", "o", "l", "d", "e", "r" >>

\* the `serveralias` string built by the loop of apache_config()
ServerAliasLines(alias) ==
    Concat([n \in 1..Len(alias) |-> << W("ServerAlias"), alias[n], NL >>])

\* SiteSettings.apache_config()
apache_config(s) ==
    LET config == << NL,
                     W("<VirtualHost *:80>"), NL,
                     W("DocumentRoot"), W("\""), s.site_folder, W("\""), NL,
                     placeholder, NL,
                     W("</VirtualHost>"), NL >>
    IN  IF s.domain = Default
        THEN Replace(config, placeholder, <<>>)
        ELSE Replace(config, placeholder,
                     << NL, W("ServerName"), s.domain, NL >>
                     \o ServerAliasLines(s.alias)
                     \o << NL >>)

----------------------------------------------------------------------------
(* Filesystem *)

\* f'/etc/apache2/sites-enabled/{s.domain}.conf'
conf_path(s) == <<"/etc/apache2/sites-enabled/">> \o s.domain \o <<".conf">>

\* '/etc/apache2/sites-enabled/default.conf'
default_conf ==
    <<"/etc/apache2/sites-enabled/", "d", "e", "f", "a", "u", "l", "t", ".conf">>

\* the text written to default_conf when it does not exist
default_vhost ==
    << NL,
       W("<VirtualHost *:80>"), NL,
       W("ServerName"), Default, NL,
       W("Redirect"), W("404"), W("/"), NL,
       W("</VirtualHost>"), NL,
       W("<VirtualHost _default_:80>"), NL,
       W("Redirect"), W("404"), W("/"), NL,
       W("</VirtualHost>"), NL >>

NoFiles == [p \in {} |-> <<>>]

\* os.path.exists(path) of a vhost file
Exists(fs, path) == path \in DOMAIN fs

\* with open(path, 'w') as file: file.write(text)
WriteFile(fs, path, text) ==
    [p \in DOMAIN fs \cup {path} |-> IF p = path THEN text ELSE fs[p]]

\* An event of the run's log
Event(ev, path, env, rc) == [ev |-> ev, path |-> path, env |-> env, rc |-> rc]

----------------------------------------------------------------------------
(* WpDockerBuilder.init_database: resolution of the root password *)

\* db_settings['root_password_random'] == True
IsTrue(x) == x.t = "bool" /\ x.v = TRUE

\* a slip: root_password, when present, wins over root_password_random
ResolveRootPassword_PasswordFirst(db_settings, old, choice) ==
    IF "root_password" \in DOMAIN db_settings
    THEN db_settings["root_password"]
    ELSE IF "root_password_random" \in DOMAIN db_settings
            /\ db_settings["root_password_random"].t = "bool"
            /\ db_settings["root_password_random"].v = TRUE
         THEN Str(random_password(choice))
         ELSE old

\* lines 128-131: the value of self.db_password after the if/elif, `old`
\* being its value before and `choice` the draws of random_password()
ResolveRootPassword(db_settings, old, choice) ==
    IF "root_password_random" \in DOMAIN db_settings
       /\ IsTrue(db_settings["root_password_random"])
    THEN Str(random_password(choice))
    ELSE IF "root_password" \in DOMAIN db_settings
         THEN db_settings["root_password"]
         ELSE old

\* line 132: self.db_password is None or len(self.db_password)==0
Rejected(password) == IsNone(password) \/ PyLen(password) = 0

----------------------------------------------------------------------------
(* The configurations the runs are started with *)

DomA == <<"a", ".", "b">>
DomC == <<"c">>
\* a key that holds the text apache_config() uses as its placeholder
DomP == placeholder
AliasW == <<"w", ".", "a", ".", "b">>
AliasV == <<"v">>

Entry(key, opt) == [key |-> key, settings |-> opt]

PwP == Str(<<"p">>)

\* `sites` mappings of the orchestration runs, in iteration order
SitesChoices ==
    { <<>>,
      << Entry(DomA, << [database_password |-> PwP] >>) >>,
      << Entry(DomA, << [alias |-> <<AliasW>>, database_password |-> PwP] >>),
         Entry(Default, << [database_password |-> PwP] >>) >>,
      << Entry(Default, << [database_password |-> PwP] >>),
         Entry(DomA, << [database_password |-> PwP] >>) >>,
      << Entry(DomA, << [alias |-> <<AliasW>>] >>), Entry(Default, <<>>) >>,
      << Entry(DomA, << [database_password |-> PwP] >>),
         Entry(DomC, << [alias |-> <<AliasV>>, database_password |-> PwP] >>),
         Entry(Default, << [database_password |-> PwP] >>) >>,
      << Entry(DomC, << [database_user_name |-> None, database_password |-> PwP] >>),
         Entry(DomA, << [database_password |-> PwP] >>) >>,
      << Entry(<<>>, << [database_password |-> PwP] >>),
         Entry(DomC, << [database_password |-> PwP] >>) >> }

\* `database` sections of the orchestration runs
DatabaseChoices ==
    { [root_password |-> Str(<<"x">>)],
      [root_password_random |-> Bool(TRUE)],
      EmptyDict }

Configs ==
    { [sites |-> ss, database |-> db] :
        ss \in SitesChoices, db \in DatabaseChoices }

\* Inputs of a single SiteSettings: every key, and for the options None or
\* a dict holding any subset of the four options
SiteKeys == { <<>>, DomA, DomC, DomP, Default }

FieldValues == { None, Str(<<>>), Str(<<"x">>) }

AliasLists == UNION { [1..n -> {AliasW, AliasV}] : n \in 0..MaxAlias }

FieldKeys == { "database_name", "database_user_name", "database_password" }

SettingsDicts ==
    UNION { UNION { {vals} \cup
                    { [k \in K \cup {"alias"} |->
                          IF k = "alias" THEN al ELSE vals[k]] : al \in AliasLists }
                  : vals \in [K -> FieldValues] }
          : K \in SUBSET FieldKeys }

SiteOptions == { <<>> } \cup { <<d>> : d \in SettingsDicts }

SiteConfigs ==
    { [sites |-> << Entry(k, opt) >>, database |-> [root_password |-> Str(<<"x">>)]] :
        k \in SiteKeys, opt \in SiteOptions }

\* Inputs of init_database: every combination of the two options
RootPasswords ==
    { None } \cup { Str(pw) : pw \in UNION { [1..n -> {"x", "y"}] : n \in 0..MaxPwLen } }

RandomFlags == { None, Bool(TRUE), Bool(FALSE) }

DatabaseDicts ==
    { EmptyDict }
    \cup { [root_password |-> pw] : pw \in RootPasswords }
    \cup { [root_password_random |-> fl] : fl \in RandomFlags }
    \cup { [root_password |-> pw, root_password_random |-> fl] :
             pw \in RootPasswords, fl \in RandomFlags }

DatabaseConfigs ==
    { [sites |-> <<>>, database |-> db] : db \in DatabaseDicts }

\* a vhost file that was not written by this program
ForeignText == << W("# local"), NL >>

InitialFiles ==
    { NoFiles, WriteFile(NoFiles, default_conf, ForeignText) }

\* '/var/www/html/', the directory the site folders are made in
html_root == <<"/var/www/html/">>

\* directories found in a new container: the root alone, or with one site
\* folder put there beforehand
InitialFolders ==
    { {html_root}, {html_root, html_root \o DomC} }

----------------------------------------------------------------------------
(* The main flow *)

\* WpDockerBuilder._parse_sites, called first by build_lamp
ParseSites ==
    /\ pc = "parse_sites"
    /\ LET settings == documents.sites
       IN  \E choice \in [1..Len(settings) -> RandomChoices] :
             sites' = sites \o
                 [n \in 1..Len(settings) |->
                     SiteSettings(settings[n].key, settings[n].settings, choice[n])]
    /\ pc' = "prepare_site_db_scripts"
    /\ UNCHANGED <<error, documents, db_password, i, files, folders, sql_file,
                   supervisor, log, run, vhost_before, folders_before, setup_count>>

\* WpDockerBuilder.prepare_site_db_scripts: append every site's block
PrepareSiteDbScripts ==
    /\ pc = "prepare_site_db_scripts"
    /\ sql_file' = sql_file \o Concat([n \in 1..Len(sites) |-> db_script(sites[n])])
    /\ log' = Append(log, Event("sql_append", <<>>, EmptyDict, 0))
    /\ pc' = "init_database"
    /\ UNCHANGED <<error, documents, sites, db_password, i, files, folders,
                   supervisor, run, vhost_before, folders_before, setup_count>>

\* a slip: the exit status is not looked at
DbInitFailed_Unchecked(rc) == FALSE

\* line 138: result.returncode != 0
DbInitFailed(rc) == rc # 0

\* WpDockerBuilder.init_database; rc is the exit status of init_mariadb.sh
InitDatabase ==
    /\ pc = "init_database"
    /\ \E choice \in RandomChoices, rc \in {0, 1} :
         LET password == ResolveRootPassword(documents.database, db_password, choice)
         IN  /\ db_password' = password
             /\ IF Rejected(password)
                THEN /\ error' = "ValueError"
                     /\ pc' = "failed"
                     /\ UNCHANGED log
                ELSE /\ log' = Append(log,
                           Event("init_mariadb.sh", <<>>,
                                 [MYSQL_ROOT_PASSWORD |-> password], rc))
                     /\ IF DbInitFailed(rc)
                        THEN error' = "SystemError" /\ pc' = "failed"
                        ELSE error' = error
                             /\ pc' = IF Len(sites) = 0 THEN "popen" ELSE "vhosts"
    /\ i' = 1
    /\ UNCHANGED <<documents, sites, files, folders, sql_file, supervisor,
                   run, vhost_before, folders_before, setup_count>>

\* a slip: the site's vhost file is written without looking for it first
WriteSiteVhost_Overwriting(fs, s) ==
    [p \in DOMAIN fs \cup {<<"/etc/apache2/sites-enabled/">> \o s.domain \o <<".conf">>} |->
        IF p = <<"/etc/apache2/sites-enabled/">> \o s.domain \o <<".conf">>
        THEN apache_config(s) ELSE fs[p]]

\* lines 85-88: the site's own vhost file, written when absent
WriteSiteVhost(fs, s) ==
    IF ~Exists(fs, conf_path(s))
    THEN WriteFile(fs, conf_path(s), apache_config(s))
    ELSE fs

\* lines 89-101: the default vhost file, written when absent
WriteDefaultVhost(fs) ==
    IF ~Exists(fs, default_conf)
    THEN WriteFile(fs, default_conf, default_vhost)
    ELSE fs

\* the writes of one pass of the loop, as log events
VhostEvents(fs, s) ==
    (IF ~Exists(fs, conf_path(s))
     THEN << Event("write_vhost", conf_path(s), EmptyDict, 0) >> ELSE <<>>)
    \o
    (IF ~Exists(WriteSiteVhost(fs, s), default_conf)
     THEN << Event("write_vhost", default_conf, EmptyDict, 0) >> ELSE <<>>)

\* one pass of the loop `for s in self.sites` of build_lamp (lines 83-101)
BuildLampVhost ==
    /\ pc = "vhosts"
    /\ i <= Len(sites)
    /\ files' = WriteDefaultVhost(WriteSiteVhost(files, sites[i]))
    /\ log' = log \o VhostEvents(files, sites[i])
    /\ i' = i + 1
    /\ pc' = IF i = Len(sites) THEN "popen" ELSE "vhosts"
    /\ UNCHANGED <<error, documents, sites, db_password, folders, sql_file,
                   supervisor, run, vhost_before, folders_before, setup_count>>

\* line 161: subprocess.Popen of supervisord
Popen ==
    /\ pc = "popen"
    /\ supervisor' = "running"
    /\ log' = Append(log, Event("supervisord", <<>>, EmptyDict, 0))
    /\ i' = 1
    /\ pc' = IF Len(sites) = 0 THEN "wait" ELSE "setup_wordpress"
    /\ UNCHANGED <<error, documents, sites, db_password, files, folders,
                   sql_file, run, vhost_before, folders_before, setup_count>>

\* lines 110-114: the environment given to setup-wp.sh
WordpressEnv(s) ==
    [ WORDPRESS_DB_USER     |-> s.db_username,
      WORDPRESS_DB_PASSWORD |-> s.db_password,
      WORDPRESS_DB_NAME     |-> s.db_name,
      WORDPRESS_DB_HOST     |-> Str(<<"127.0.0.1">>) ]

\* line 108: not os.path.exists(s.site_folder)
NeedsSetup(dirs, s) == s.site_folder \notin dirs

\* subprocess.run takes an environment of strings only: any other value
\* makes it raise TypeError before the child is started
EnvAccepted(env) == \A k \in DOMAIN env : env[k].t = "str"

Count(path) == IF path \in DOMAIN setup_count THEN setup_count[path] ELSE 0

\* the position after the pass over the site at index n
AfterPass(n) == IF n = Len(sites) THEN "wait" ELSE "setup_wordpress"

\* one pass of the loop of setup_wordpress, up to the start of setup-wp.sh
\* (lines 106-115): a site whose folder exists is passed over; otherwise
\* the folder is made and subprocess.run starts setup-wp.sh and waits for
\* it, or raises TypeError
SetupWordpress ==
    /\ pc = "setup_wordpress"
    /\ i <= Len(sites)
    /\ LET s == sites[i]
       IN  IF ~NeedsSetup(folders, s)
           THEN /\ i' = i + 1
                /\ pc' = AfterPass(i)
                /\ UNCHANGED <<error, folders, log, setup_count>>
           ELSE /\ folders' = folders \cup {s.site_folder}
                /\ i' = i
                /\ IF EnvAccepted(WordpressEnv(s))
                   THEN /\ log' = log \o
                              << Event("mkdir", s.site_folder, EmptyDict, 0),
                                 Event("setup-wp.sh", s.site_folder, WordpressEnv(s), 0) >>
                        /\ setup_count' =
                              [p \in DOMAIN setup_count \cup {s.site_folder} |->
                                  IF p = s.site_folder THEN Count(p) + 1
                                  ELSE setup_count[p]]
                        /\ pc' = "setup_running"
                        /\ error' = error
                   ELSE /\ log' = Append(log, Event("mkdir", s.site_folder, EmptyDict, 0))
                        /\ pc' = "failed"
                        /\ error' = "TypeError"
                        /\ UNCHANGED setup_count
    /\ UNCHANGED <<documents, sites, db_password, files, sql_file,
                   supervisor, run, vhost_before, folders_before>>

\* line 115: setup-wp.sh exits and subprocess.run returns; the exit status
\* rc is not looked at
SetupWpExit ==
    /\ pc = "setup_running"
    /\ \E rc \in {0, 1} :
          log' = Append(log, Event("setup-wp.sh exited", sites[i].site_folder,
                                   EmptyDict, rc))
    /\ i' = i + 1
    /\ pc' = AfterPass(i)
    /\ UNCHANGED <<error, documents, sites, db_password, files, folders, sql_file,
                   supervisor, run, vhost_before, folders_before, setup_count>>

\* line 163: p.wait() returns once supervisord has exited
Wait ==
    /\ pc = "wait"
    /\ supervisor = "exited"
    /\ pc' = "done"
    /\ log' = Append(log, Event("wait_returned", <<>>, EmptyDict, 0))
    /\ UNCHANGED <<error, documents, sites, db_password, i, files, folders,
                   sql_file, supervisor, run, vhost_before, folders_before, setup_count>>

\* supervisord, a child process, exits on its own
SupervisorExit ==
    /\ supervisor = "running"
    /\ supervisor' = "exited"
    /\ UNCHANGED <<pc, error, documents, sites, db_password, i, files, folders,
                   sql_file, log, run, vhost_before, folders_before, setup_count>>

\* The container is started again on the same filesystem, after the main
\* flow has ended or while it waits for setup-wp.sh or supervisord: a new
\* process runs WpDockerBuilder.__init__ on the configuration found then.
Restart ==
    /\ pc \in {"failed", "setup_running", "wait", "done"}
    /\ run < MaxRuns
    /\ run' = run + 1
    /\ documents' \in Configs
    /\ sites' = <<>>
    /\ db_password' = None
    /\ error' = "none"
    /\ pc' = "parse_sites"
    /\ i' = 0
    /\ supervisor' = "none"
    /\ log' = <<>>
    /\ vhost_before' = files
    /\ folders_before' = folders
    /\ UNCHANGED <<files, folders, sql_file, setup_count>>

\* State after WpDockerBuilder('/etc/wp-docker-config.yml') in a new container
Init ==
    /\ pc = "parse_sites"
    /\ error = "none"
    /\ documents \in Configs
    /\ sites = <<>>
    /\ db_password = None
    /\ i = 0
    /\ files \in InitialFiles
    /\ folders \in InitialFolders
    /\ sql_file = <<>>
    /\ supervisor = "none"
    /\ log = <<>>
    /\ run = 1
    /\ vhost_before = files
    /\ folders_before = folders
    /\ setup_count = [p \in {} |-> 0]

Next ==
    \/ ParseSites
    \/ PrepareSiteDbScripts
    \/ InitDatabase
    \/ BuildLampVhost
    \/ Popen
    \/ SetupWordpress
    \/ SetupWpExit
    \/ Wait
    \/ SupervisorExit
    \/ Restart

Spec == Init /\ [][Next]_vars

----------------------------------------------------------------------------
(* One site, from every input of SiteSettings, through build_lamp *)

\* the state after construction, whatever the document holds
Constructed(docs) ==
    /\ pc = "parse_sites"
    /\ error = "none"
    /\ documents \in docs
    /\ sites = <<>>
    /\ db_password = None
    /\ i = 0
    /\ files = NoFiles
    /\ folders = {html_root}
    /\ sql_file = <<>>
    /\ supervisor = "none"
    /\ log = <<>>
    /\ run = 1
    /\ vhost_before = files
    /\ folders_before = folders
    /\ setup_count = [p \in {} |-> 0]

InitSite == Constructed(SiteConfigs)

NextSite ==
    \/ ParseSites
    \/ PrepareSiteDbScripts
    \/ InitDatabase
    \/ BuildLampVhost

SpecSite == InitSite /\ [][NextSite]_vars

(* init_database, from every input of the database section *)

InitDb == Constructed(DatabaseConfigs)

NextDb ==
    \/ ParseSites
    \/ PrepareSiteDbScripts
    \/ InitDatabase
    \/ Popen

SpecDb == InitDb /\ [][NextDb]_vars

----------------------------------------------------------------------------
(* Reading the generated texts and the log *)

RECURSIVE Lines(_)
\* the lines of a text: the runs of tokens between line breaks
Lines(text) ==
    IF text = <<>> THEN << <<>> >>
    ELSE LET rest == Lines(Tail(text))
         IN  IF Head(text) = NL
             THEN << <<>> >> \o rest
             ELSE << <<Head(text)>> \o Head(rest) >> \o Tail(rest)

\* the lines of a text that begin with the given words
LinesStarting(text, words) ==
    SelectSeq(Lines(text),
              LAMBDA l : Len(l) >= Len(words) /\ SubSeq(l, 1, Len(words)) = words)

\* the events of the log with one of the given names
Events(names) == SelectSeq(log, LAMBDA e : e.ev \in names)

\* self.sites has been filled by _parse_sites
Parsed == pc # "parse_sites"

\* init_database has returned or raised
DatabaseStepOver == pc \notin {"parse_sites", "prepare_site_db_scripts", "init_database"}

\* build_lamp has returned
BuildLampDone == pc \in {"popen", "setup_wordpress", "wait", "done"}

----------------------------------------------------------------------------
(* C1: init_database resolves the root password: with root_password_random
   true it is a generated string of exactly 32 lowercase letters, whatever
   root_password holds; otherwise it is root_password verbatim when that key
   is present; and when the resolved password is absent or empty a
   ValueError is raised and init_mariadb.sh is not invoked. *)
C1_RandomRequested ==
    /\ "root_password_random" \in DOMAIN documents.database
    /\ documents.database["root_password_random"] = Bool(TRUE)

C1_RootPasswordResolution ==
    DatabaseStepOver =>
        /\ C1_RandomRequested =>
              /\ db_password.t = "str"
              /\ Len(db_password.v) = 32
              /\ \A n \in 1..Len(db_password.v) : db_password.v[n] \in ascii_lowercase
        /\ (~C1_RandomRequested /\ "root_password" \in DOMAIN documents.database) =>
              db_password = documents.database["root_password"]
        /\ (~C1_RandomRequested /\ "root_password" \notin DOMAIN documents.database) =>
              db_password = None
        /\ IF db_password = None \/ db_password = Str(<<>>)
           THEN /\ error = "ValueError"
                /\ pc = "failed"
                /\ Events({"init_mariadb.sh"}) = <<>>
           ELSE /\ error # "ValueError"
                /\ Len(Events({"init_mariadb.sh"})) = 1
                /\ Events({"init_mariadb.sh"})[1].env["MYSQL_ROOT_PASSWORD"] = db_password

\* a random password was generated although root_password was given as well
C1_Witness ==
    /\ pc = "popen"
    /\ C1_RandomRequested
    /\ "root_password" \in DOMAIN documents.database
    /\ documents.database["root_password"] = Str(<<"x", "y">>)
    /\ db_password # documents.database["root_password"]

\* an empty root_password was rejected before any process was started
C1_WitnessRejected ==
    /\ pc = "failed"
    /\ error = "ValueError"
    /\ "root_password" \in DOMAIN documents.database
    /\ documents.database["root_password"] = Str(<<>>)
    /\ log = << Event("sql_append", <<>>, EmptyDict, 0) >>

----------------------------------------------------------------------------
(* C5, as stated: for every domain key and every options mapping, with any
   values, a constructed site has non-empty db_name, db_username and
   db_password. *)
C5_NeverEmpty ==
    \A n \in 1..Len(sites) :
        /\ ~IsEmptyValue(sites[n].db_name)
        /\ ~IsEmptyValue(sites[n].db_username)
        /\ ~IsEmptyValue(sites[n].db_password)

----------------------------------------------------------------------------
(* C6: the SQL of db_script() is idempotent: it holds exactly one
   create-database, one create-user and one grant statement naming the
   site's db_name and db_username, and both the database creation and the
   user creation are conditional (IF NOT EXISTS), so that running the block
   again on an engine that holds the database and the user does not fail. *)
C6_IfNotExists == << W("IF"), W("NOT"), W("EXISTS") >>

C6_IdempotentScript ==
    \A n \in 1..Len(sites) :
        LET s == sites[n]
            sql == db_script(s)
            dbs == LinesStarting(sql, << W("CREATE"), W("DATABASE") >>)
            users == LinesStarting(sql, << W("CREATE"), W("USER") >>)
            grants == LinesStarting(sql, << W("GRANT") >>)
        IN  /\ Len(dbs) = 1 /\ Len(users) = 1 /\ Len(grants) = 1
            /\ dbs[1] = << W("CREATE"), W("DATABASE") >> \o C6_IfNotExists
                         \o << Format(s.db_name), W(";") >>
            /\ SubSeq(users[1], 1, 7) =
                   << W("CREATE"), W("USER") >> \o C6_IfNotExists
                   \o << W("'"), Format(s.db_username) >>
            /\ SubSeq(grants[1], 1, 9) =
                   << W("GRANT"), W("ALL"), W("ON"), Format(s.db_name), W(".*"),
                      W("TO"), W("'"), Format(s.db_username), W("'@'%'") >>

----------------------------------------------------------------------------
(* C7: apache_config() of the site "default" is one port-80 vhost block
   with no ServerName and no ServerAlias line; of any other site it is one
   vhost block with exactly one ServerName line, naming the domain, and
   exactly one ServerAlias line per alias, in the order of the alias list
   (none when the list is empty). *)
C7_Mentions(text, word) == \E k \in 1..Len(text) : text[k] = W(word)

C7_ApacheConfig ==
    \A n \in 1..Len(sites) :
        LET s == sites[n]
            config == apache_config(s)
            names == LinesStarting(config, << W("ServerName") >>)
            aliases == LinesStarting(config, << W("ServerAlias") >>)
        IN  /\ Len(LinesStarting(config, << W("<VirtualHost *:80>") >>)) = 1
            /\ Len(LinesStarting(config, << W("</VirtualHost>") >>)) = 1
            /\ \A k \in 1..Len(config) : config[k] # placeholder
            /\ IF s.domain = Default
               THEN /\ ~C7_Mentions(config, "ServerName")
                    /\ ~C7_Mentions(config, "ServerAlias")
               ELSE /\ names = << << W("ServerName"), s.domain >> >>
                    /\ aliases = [k \in 1..Len(s.alias) |->
                                     << W("ServerAlias"), s.alias[k] >>]

----------------------------------------------------------------------------
(* C2: when init_mariadb.sh exits with a non-zero status the run halts
   there, without a retry: no vhost file is written, supervisord is never
   launched and setup-wp.sh is never invoked in that run. *)
C2_DbInitFailedInThisRun ==
    \E k \in 1..Len(log) : log[k].ev = "init_mariadb.sh" /\ log[k].rc # 0

C2_HaltsOnDbInitFailure ==
    C2_DbInitFailedInThisRun =>
        /\ pc = "failed"
        /\ error = "SystemError"
        /\ Len(Events({"init_mariadb.sh"})) = 1
        /\ Events({"write_vhost", "supervisord", "mkdir", "setup-wp.sh"}) = <<>>
        /\ files = vhost_before
        /\ supervisor = "none"

\* the database initialisation failed in a run that had sites to serve
C2_Witness ==
    /\ C2_DbInitFailedInThisRun
    /\ Len(sites) >= 2
    /\ vhost_before = NoFiles
    /\ \A n \in 1..Len(sites) : sites[n].site_folder \notin folders

----------------------------------------------------------------------------
(* C3: over any number of runs on a persisted filesystem, with whatever
   configuration each run finds, a vhost file that exists when a run starts,
   a site's or the default one, has the same content afterwards. *)
C3_ExistingVhostsKept ==
    \A p \in DOMAIN vhost_before :
        p \in DOMAIN files /\ files[p] = vhost_before[p]

\* a later run whose configuration gives a site another vhost text than the
\* one on disk, and which found a default vhost file as well
C3_Witness ==
    /\ run > 1
    /\ BuildLampDone
    /\ default_conf \in DOMAIN vhost_before
    /\ \E n \in 1..Len(sites) :
          /\ sites[n].domain # Default
          /\ conf_path(sites[n]) \in DOMAIN vhost_before
          /\ vhost_before[conf_path(sites[n])] # apache_config(sites[n])

----------------------------------------------------------------------------
(* C4: after every build_lamp that completes without error a default vhost
   file exists, for every sites mapping (any number of entries, with or
   without an entry "default"); if none existed beforehand it is the
   synthesized one: a named vhost for ServerName default and a wildcard
   default vhost, both redirecting with 404. *)
C4_DefaultVhostExists ==
    BuildLampDone =>
        /\ Exists(files, default_conf)
        /\ ~Exists(vhost_before, default_conf) => files[default_conf] = default_vhost

----------------------------------------------------------------------------
(* C10: after build_lamp on a filesystem without vhost files, every site of
   the configuration, in whatever order the mapping lists them and the site
   "default" included, has its vhost file, holding its apache_config(). *)
C10_EverySiteHasItsVhost ==
    (BuildLampDone /\ vhost_before = NoFiles) =>
        \A n \in 1..Len(sites) :
            /\ Exists(files, conf_path(sites[n]))
            /\ files[conf_path(sites[n])] = apache_config(sites[n])

----------------------------------------------------------------------------
(* C8: setup_wordpress handles the sites in list order: a site whose folder
   exists is skipped, its folder untouched and no setup-wp.sh started;
   otherwise the folder is created and then setup-wp.sh is started exactly
   once with the site's database user, password and name and the host
   127.0.0.1.  A non-zero exit of setup-wp.sh does not stop the loop: the
   other sites are handled and the main flow reaches the wait.  Over the
   restarts setup-wp.sh therefore runs at most once per site, also when its
   first run failed. *)
C8_SiteOf(path) == CHOOSE n \in 1..Len(sites) : sites[n].site_folder = path

C8_EverySiteSetUpOnce ==
    \* a folder found at the start of the run: nothing is done there
    /\ \A k \in 1..Len(log) :
          log[k].ev \in {"mkdir", "setup-wp.sh"} => log[k].path \notin folders_before
    \* a folder that is made: setup-wp.sh is started there right after, with
    \* the site's credentials
    /\ \A k \in 1..Len(log) :
          log[k].ev = "mkdir" =>
              /\ k < Len(log)
              /\ log[k + 1].ev = "setup-wp.sh"
              /\ log[k + 1].path = log[k].path
              /\ \E n \in 1..Len(sites) :
                    /\ sites[n].site_folder = log[k].path
                    /\ log[k + 1].env["WORDPRESS_DB_USER"] = sites[n].db_username
                    /\ log[k + 1].env["WORDPRESS_DB_PASSWORD"] = sites[n].db_password
                    /\ log[k + 1].env["WORDPRESS_DB_NAME"] = sites[n].db_name
                    /\ log[k + 1].env["WORDPRESS_DB_HOST"] = Str(<<"127.0.0.1">>)
    /\ \A k \in 1..Len(log) :
          log[k].ev = "setup-wp.sh" => k > 1 /\ log[k - 1].ev = "mkdir"
    \* once per site, in list order
    /\ LET starts == Events({"setup-wp.sh"})
       IN  \A j, k \in 1..Len(starts) :
              j < k => C8_SiteOf(starts[j].path) < C8_SiteOf(starts[k].path)
    \* nothing stops the loop: the run does not end in it, and at the wait
    \* every site without a folder has had its setup
    /\ Events({"supervisord"}) # <<>> => pc # "failed"
    /\ pc \in {"wait", "done"} =>
          \A n \in 1..Len(sites) :
              sites[n].site_folder \notin folders_before =>
                  /\ Len(SelectSeq(log, LAMBDA e : e.ev = "setup-wp.sh"
                                       /\ e.path = sites[n].site_folder)) = 1
                  /\ Len(SelectSeq(log, LAMBDA e : e.ev = "setup-wp.sh exited"
                                       /\ e.path = sites[n].site_folder)) = 1
    \* over the restarts
    /\ \A p \in DOMAIN setup_count : setup_count[p] <= 1

----------------------------------------------------------------------------
(* C9: in every run the steps come in this order, each after the previous
   one has finished: the SQL blocks of all sites are appended to the init
   file, init_mariadb.sh runs to completion, the vhost files are written,
   supervisord is launched in the background, setup_wordpress goes through
   every site, one setup-wp.sh at a time, while supervisord is a launched
   child that has not been waited for, and only then the main flow waits on
   supervisord; a main flow that has launched supervisord ends only after
   every site has been gone through and supervisord has exited. *)
C9_Phase(e) ==
    CASE e.ev = "sql_append"      -> 1
      [] e.ev = "init_mariadb.sh" -> 2
      [] e.ev = "write_vhost"     -> 3
      [] e.ev = "supervisord"     -> 4
      [] e.ev \in {"mkdir", "setup-wp.sh", "setup-wp.sh exited"} -> 5
      [] e.ev = "wait_returned"   -> 6

C9_Has(names) == Events(names) # <<>>

\* the blocks of all sites are the end of the SQL file
C9_AllBlocksAppended ==
    LET blocks == Concat([n \in 1..Len(sites) |-> db_script(sites[n])])
    IN  /\ Len(sql_file) >= Len(blocks)
        /\ SubSeq(sql_file, Len(sql_file) - Len(blocks) + 1, Len(sql_file)) = blocks

C9_StepOrder ==
    /\ \A j, k \in 1..Len(log) : j < k => C9_Phase(log[j]) <= C9_Phase(log[k])
    /\ \A name \in {"sql_append", "init_mariadb.sh", "supervisord", "wait_returned"} :
          Len(Events({name})) <= 1
    /\ C9_Has({"init_mariadb.sh"}) =>
          C9_Has({"sql_append"}) /\ C9_AllBlocksAppended
    /\ C9_Has({"write_vhost", "supervisord"}) =>
          C9_Has({"init_mariadb.sh"}) /\ Events({"init_mariadb.sh"})[1].rc = 0
    /\ C9_Has({"supervisord"}) <=> supervisor # "none"
    /\ C9_Has({"supervisord"}) =>
          \A n \in 1..Len(sites) : Exists(files, conf_path(sites[n]))
    /\ C9_Has({"mkdir", "setup-wp.sh"}) => C9_Has({"supervisord"})
    /\ pc \in {"setup_wordpress", "setup_running"} =>
          supervisor \in {"running", "exited"} /\ ~C9_Has({"wait_returned"})
    /\ \A k \in 1..Len(log) :
          log[k].ev = "setup-wp.sh" =>
              IF k = Len(log)
              THEN pc = "setup_running" /\ sites[i].site_folder = log[k].path
              ELSE /\ log[k + 1].ev = "setup-wp.sh exited"
                   /\ log[k + 1].path = log[k].path
    /\ pc = "wait" =>
          /\ C9_Has({"supervisord"})
          /\ \A n \in 1..Len(sites) : sites[n].site_folder \in folders
    /\ pc = "done" <=> C9_Has({"wait_returned"})
    /\ pc = "done" => log[Len(log)].ev = "wait_returned"
    /\ (pc \in {"failed", "done"} /\ C9_Has({"supervisord"})) =>
          /\ supervisor = "exited"
          /\ C9_Has({"wait_returned"})
          /\ \A n \in 1..Len(sites) : sites[n].site_folder \in folders

====
